---- MODULE Spec2Model ----
(***************************************************************************)
(* Model of src/src/lambda_function.py: the birthday-card Lambda.          *)
(*   lambda_handler         fetch config, messages, spreadsheet, template  *)
(*                          and bubble, compose the card, build and send   *)
(*                          the e-mail (lines 14-116)                      *)
(*   add_bubble_with_names  fit the names into the bubble, paste the       *)
(*                          bubble, draw the names (lines 139-198)         *)
(* A name list is the sequence of its names' lengths in characters; an     *)
(* image is its size; a font is its kind and size.  Pillow's text          *)
(* measurement is modelled by a metric that is linear in the font size.    *)
(***************************************************************************)
EXTENDS Integers, Sequences, FiniteSets, TLC

\* ---------------------------------------------------------------- bounds
MaxNames == 20
MaxNameLen == 200

\* ------------------------------------------------------ program constants
start_font_size == 50
fallback_font_size == 30
min_font_size == 15
font_step == 2
padding == 60
spacing == 8
top_padding == 40
max_width == 1200
max_height == 800
\* ImageFont.load_default(): a fixed-size built-in font
default_font_size == 10
default_char_width == 6
default_line_height == 11

\* ------------------------------------------------------------- inputs
NameCounts == {1, 2, 5, MaxNames}
NameLens == {2, 11, 60, MaxNameLen}
NameLists ==
    {<<>>, <<11, 2>>} \cup
    UNION {{[i \in 1..n |-> l] : l \in NameLens} : n \in NameCounts}
CanvasSizes == {[w |-> 1200, h |-> 800], [w |-> 300, h |-> 200], [w |-> 640, h |-> 960]}
TemplateSizes == CanvasSizes \cup {[w |-> 2400, h |-> 1000], [w |-> 1000, h |-> 1600]}
BubbleSizes == {[w |-> 400, h |-> 100], [w |-> 200, h |-> 200], [w |-> 100, h |-> 400],
                [w |-> 150, h |-> 110]}
\* size_ratio in (0,1] as a fraction num/den
SizeRatios == {[num |-> 1, den |-> 10], [num |-> 4, den |-> 10],
               [num |-> 5, den |-> 10], [num |-> 10, den |-> 10]}
HandlerRatio == [num |-> 4, den |-> 10]

VARIABLES
    \* environment
    fontAvailable,      \* arialbi.ttf can be loaded
    \* lambda_handler
    hpc, statusCode, body, hnames, himg, failed,
    done,               \* the handler's steps that have succeeded
    templateFetched, bubbleFetched, emailBuilt, sendCalls, emailSent,
    \* add_bubble_with_names
    caller, pc, img, bubble, names, size_ratio,
    font_size, font, text_w, text_h, new_width, new_height,
    bubble_x, bubble_y, text_x, text_y,
    canvas,             \* what has been composited onto img
    sizes,              \* font_size at each measurement of the loop
    fallback,           \* the except branch of the first font load was taken
    lateLoads,          \* truetype loads attempted after the fallback
    exitKind            \* how the loop was left

hvars == <<hpc, statusCode, body, hnames, himg, failed, done,
           templateFetched, bubbleFetched, emailBuilt, sendCalls, emailSent>>
argvars == <<caller, img, bubble, names, size_ratio>>
fitvars == <<font_size, font, text_w, text_h, new_width, new_height,
             sizes, fallback, lateLoads, exitKind>>
posvars == <<bubble_x, bubble_y, text_x, text_y>>
cvars == <<argvars, pc, fitvars, posvars, canvas>>
vars == <<fontAvailable, hvars, cvars>>

\* ------------------------------------------------------------- helpers
Max(a, b) == IF a >= b THEN a ELSE b
Abs(a) == IF a >= 0 THEN a ELSE -a
RECURSIVE MaxLen(_)
MaxLen(s) == IF s = <<>> THEN 0 ELSE Max(Head(s), MaxLen(Tail(s)))

TrueType(size) == [kind |-> "truetype", size |-> size]
DefaultFont == [kind |-> "default", size |-> default_font_size]
NoFont == [kind |-> "none", size |-> 0]

\* Width of the widest line and height of the block, text = "\n".join(names)
CharWidth(f) == IF f.kind = "truetype" THEN f.size \div 2 ELSE default_char_width
LineHeight(f) == IF f.kind = "truetype" THEN f.size ELSE default_line_height
TextW(ns, f) == MaxLen(ns) * CharWidth(f)
TextH(ns, f) ==
    IF ns = <<>> THEN 0 ELSE Len(ns) * LineHeight(f) + (Len(ns) - 1) * spacing

RequiredW(tw) == tw + padding
RequiredH_NoPadding(th) == th
RequiredH(th) == th + padding

\* int(base_w * size_ratio)
ScaledWidth(bw, r) == (bw * r.num) \div r.den
NewWidth(bw, r, rw) == Max(ScaledWidth(bw, r), rw)
\* aspect_ratio = bubble_img.height / bubble_img.width is a float: it is exact
\* when the reduced denominator is a power of two.
RECURSIVE GCD(_, _)
GCD(a, b) == IF b = 0 THEN a ELSE GCD(b, a % b)
RECURSIVE IsPow2(_)
IsPow2(n) == n = 1 \/ (n % 2 = 0 /\ IsPow2(n \div 2))
ExactAspect(b) == IsPow2(b.w \div GCD(b.w, b.h))
\* int(new_width * aspect_ratio): the truncated float product.  With an inexact
\* aspect ratio a whole quotient can come out just below itself and truncate
\* to one less (int(600 * (110 / 150)) = 439).
ScaledHeights_Inverted(nw, b) == {(nw * b.w) \div b.h}
ScaledHeights(nw, b) ==
    LET q == (nw * b.h) \div b.w
    IN IF ExactAspect(b) \/ (nw * b.h) % b.w # 0 THEN {q} ELSE {q - 1, q}
NewHeight(sh, rh) == Max(sh, rh)

Fits_WidthOnly(nw, nh, im) == nw <= im.w
Fits(nw, nh, im) == nw <= im.w /\ nh <= im.h

Decrement_ByOne(fs) == fs - 1
Decrement(fs) == fs - font_step
BelowFloor(fs) == fs < min_font_size

\* Image.thumbnail((max_width, max_height)) when the template is too large
RoundAspect1(w, h, y) ==
    LET f == (y * w) \div h
        c == IF (y * w) % h = 0 THEN f ELSE f + 1
    IN Max(IF Abs(w * y - f * h) <= Abs(w * y - c * h) THEN f ELSE c, 1)
RoundAspect2(w, h, x) ==
    LET f == (x * h) \div w
        c == IF (x * h) % w = 0 THEN f ELSE f + 1
    IN Max(IF f = 0 \/ Abs(w * f - x * h) * c <= Abs(w * c - x * h) * f
           THEN f ELSE c, 1)
Thumbnail(im) ==
    IF im.w > max_width \/ im.h > max_height
    THEN IF max_width * im.h >= im.w * max_height
         THEN [w |-> RoundAspect1(im.w, im.h, max_height), h |-> max_height]
         ELSE [w |-> max_width, h |-> RoundAspect2(im.w, im.h, max_width)]
    ELSE im

\* ---------------------------------------------------------------- Init
NoImage == [w |-> 0, h |-> 0]
NoBubble == [ok |-> FALSE, w |-> 1, h |-> 1]
Blank == [pasted |-> FALSE, drawn |-> FALSE]

Init ==
    /\ fontAvailable \in BOOLEAN
    /\ hpc = "idle" /\ statusCode = 0 /\ body = "" /\ hnames = <<>>
    /\ himg = NoImage /\ failed = FALSE /\ done = {}
    /\ templateFetched = FALSE /\ bubbleFetched = FALSE /\ emailBuilt = FALSE
    /\ sendCalls = 0 /\ emailSent = FALSE
    /\ caller = "none" /\ pc = "idle" /\ img = NoImage /\ bubble = NoBubble
    /\ names = <<>> /\ size_ratio = HandlerRatio
    /\ font_size = 0 /\ font = NoFont /\ text_w = 0 /\ text_h = 0
    /\ new_width = 0 /\ new_height = 0
    /\ bubble_x = 0 /\ bubble_y = 0 /\ text_x = 0 /\ text_y = 0
    /\ canvas = Blank /\ sizes = <<>> /\ fallback = FALSE /\ lateLoads = 0
    /\ exitKind = "none"

\* ------------------------------------------------ add_bubble_with_names
\* The call itself: bind the arguments.
Enter(who, im, b, ns, r) ==
    /\ caller' = who /\ img' = im /\ bubble' = b /\ names' = ns /\ size_ratio' = r
    /\ pc' = "open"
    /\ UNCHANGED <<fitvars, posvars, canvas>>

\* A caller other than lambda_handler, with any arguments.
DirectCall ==
    /\ hpc = "idle" /\ pc = "idle"
    /\ \E im \in CanvasSizes, bs \in BubbleSizes, ok \in BOOLEAN,
          ns \in NameLists, r \in SizeRatios :
          Enter("direct", im, [ok |-> ok, w |-> bs.w, h |-> bs.h], ns, r)
    /\ UNCHANGED <<fontAvailable, hvars>>

\* lines 140-141: Image.open(...).convert("RGBA") raises on undecodable bytes
OpenBubble_IgnoreError ==
    /\ pc = "open"
    /\ pc' = "font"
    /\ UNCHANGED <<fontAvailable, hvars, argvars, fitvars, posvars, canvas>>
OpenBubble ==
    /\ pc = "open"
    /\ pc' = IF bubble.ok THEN "font" ELSE "raised"
    /\ UNCHANGED <<fontAvailable, hvars, argvars, fitvars, posvars, canvas>>

\* lines 143-151: first font load, with the bare except
LoadInitialFont ==
    /\ pc = "font"
    /\ IF fontAvailable
       THEN /\ font_size' = start_font_size
            /\ font' = TrueType(start_font_size)
            /\ fallback' = FALSE
       ELSE /\ font_size' = fallback_font_size
            /\ font' = DefaultFont
            /\ fallback' = TRUE
    /\ pc' = "loop"
    /\ UNCHANGED <<fontAvailable, hvars, argvars, posvars, canvas,
                   text_w, text_h, new_width, new_height, sizes, lateLoads, exitKind>>

\* lines 157-179: one pass of the while True loop
LoopIter ==
    /\ pc = "loop"
    /\ LET tw == TextW(names, font)
           th == TextH(names, font)
           nw == NewWidth(img.w, size_ratio, RequiredW(tw))
           fs == Decrement(font_size)
       IN \E sh \in ScaledHeights(nw, bubble) :
          LET nh == NewHeight(sh, RequiredH(th)) IN
          /\ text_w' = tw /\ text_h' = th
          /\ new_width' = nw /\ new_height' = nh
          /\ sizes' = Append(sizes, font_size)
          /\ IF Fits(nw, nh, img)
             THEN /\ pc' = "paste" /\ exitKind' = "fit"
                  /\ UNCHANGED <<font_size, font, lateLoads>>
             ELSE IF BelowFloor(fs)
             THEN /\ font_size' = min_font_size
                  /\ pc' = "paste" /\ exitKind' = "floor"
                  /\ UNCHANGED <<font, lateLoads>>
             ELSE /\ font_size' = fs
                  /\ lateLoads' = IF fallback THEN lateLoads + 1 ELSE lateLoads
                  /\ IF fontAvailable
                     THEN font' = TrueType(fs) /\ pc' = "loop"
                     ELSE font' = font /\ pc' = "raised"
                  /\ UNCHANGED exitKind
    /\ UNCHANGED <<fontAvailable, hvars, argvars, posvars, canvas, fallback>>

\* lines 182-185: resize the bubble and paste it centered
BubbleX(bw, nw) == (bw - nw) \div 2
BubbleY_Swapped(bh, nh) == (nh - bh) \div 2
BubbleY(bh, nh) == (bh - nh) \div 2
Paste ==
    /\ pc = "paste"
    /\ bubble_x' = BubbleX(img.w, new_width)
    /\ bubble_y' = BubbleY(img.h, new_height)
    /\ canvas' = [canvas EXCEPT !.pasted = TRUE]
    /\ pc' = "draw"
    /\ UNCHANGED <<fontAvailable, hvars, argvars, fitvars, text_x, text_y>>

\* lines 188-198: measure with the current font, place and draw the text
Draw ==
    /\ pc = "draw"
    /\ LET tw == TextW(names, font)
           th == TextH(names, font)
       IN /\ text_w' = tw /\ text_h' = th
          /\ text_x' = bubble_x + (new_width - tw) \div 2
          /\ text_y' = bubble_y + top_padding
    /\ canvas' = [canvas EXCEPT !.drawn = TRUE]
    /\ pc' = "returned"
    /\ UNCHANGED <<fontAvailable, hvars, argvars, bubble_x, bubble_y,
                   font_size, font, new_width, new_height,
                   sizes, fallback, lateLoads, exitKind>>

\* ------------------------------------------------------- lambda_handler
\* A return statement of the handler.
Return(code, b) ==
    /\ hpc' = "returned" /\ statusCode' = code /\ body' = b
    /\ UNCHANGED <<failed, done>>

\* lines 113-116: except Exception -> statusCode 500
Catch ==
    /\ hpc' = "returned" /\ statusCode' = 500 /\ body' = "Lambda failed"
    /\ failed' = TRUE
    /\ UNCHANGED done

\* The step at hpc succeeded: on to the next statement.
Goto(p) ==
    /\ hpc' = p /\ done' = done \cup {hpc}
    /\ UNCHANGED <<statusCode, body, failed>>

hdata == <<hnames, himg, templateFetched, bubbleFetched, emailBuilt, sendCalls, emailSent>>

\* lines 15-23: the required environment variables
HandlerStart ==
    /\ hpc = "idle" /\ pc = "idle"
    /\ \E ok \in BOOLEAN : IF ok THEN Goto("config") ELSE Catch
    /\ UNCHANGED <<fontAvailable, hdata, cvars>>

\* lines 37-39: the config object
HandlerConfig ==
    /\ hpc = "config"
    /\ \E ok \in BOOLEAN : IF ok THEN Goto("messages") ELSE Catch
    /\ UNCHANGED <<fontAvailable, hdata, cvars>>

\* lines 42-47: the monthly messages
HandlerMessages ==
    /\ hpc = "messages"
    /\ \E ok \in BOOLEAN : IF ok THEN Goto("excel") ELSE Catch
    /\ UNCHANGED <<fontAvailable, hdata, cvars>>

\* lines 50-58: the spreadsheet and the current month's names
HandlerExcel ==
    /\ hpc = "excel"
    /\ \/ \E ns \in NameLists : hnames' = ns /\ Goto("names")
       \/ Catch /\ UNCHANGED hnames
    /\ UNCHANGED <<fontAvailable, himg, templateFetched, bubbleFetched,
                   emailBuilt, sendCalls, emailSent, cvars>>

\* lines 60-62: no birthdays this month
HandlerNames_NoCheck ==
    /\ hpc = "names"
    /\ Goto("template")
    /\ UNCHANGED <<fontAvailable, hdata, cvars>>
HandlerNames ==
    /\ hpc = "names"
    /\ IF hnames = <<>>
       THEN Return(200, "No birthdays this month")
       ELSE Goto("template")
    /\ UNCHANGED <<fontAvailable, hdata, cvars>>

\* lines 65-77: the template, fetched, decoded and shrunk to 1200x800
HandlerTemplate ==
    /\ hpc = "template"
    /\ \/ \E t \in TemplateSizes :
            /\ templateFetched' = TRUE /\ himg' = Thumbnail(t)
            /\ Goto("bubble")
       \/ \E fetched \in BOOLEAN :
            /\ templateFetched' = fetched /\ UNCHANGED himg
            /\ Catch
    /\ UNCHANGED <<fontAvailable, hnames, bubbleFetched, emailBuilt,
                   sendCalls, emailSent, cvars>>

\* lines 80-85: the bubble object, then the call of add_bubble_with_names
HandlerBubble ==
    /\ hpc = "bubble"
    /\ \/ /\ \E bs \in BubbleSizes, ok \in BOOLEAN :
               Enter("handler", himg, [ok |-> ok, w |-> bs.w, h |-> bs.h],
                     hnames, HandlerRatio)
          /\ bubbleFetched' = TRUE
          /\ Goto("compose")
       \/ /\ Catch
          /\ UNCHANGED <<bubbleFetched, cvars>>
    /\ UNCHANGED <<fontAvailable, hnames, himg, templateFetched, emailBuilt,
                   sendCalls, emailSent>>

\* lines 85-86: add_bubble_with_names returned the image
HandlerComposed ==
    /\ hpc = "compose" /\ pc = "returned"
    /\ Goto("save")
    /\ UNCHANGED <<fontAvailable, hdata, cvars>>

\* line 85, lines 113-116: add_bubble_with_names raised
HandlerComposeRaised ==
    /\ hpc = "compose" /\ pc = "raised"
    /\ Catch
    /\ UNCHANGED <<fontAvailable, hdata, cvars>>

\* lines 89-92: the PNG buffer
HandlerSave ==
    /\ hpc = "save"
    /\ \E ok \in BOOLEAN : IF ok THEN Goto("build") ELSE Catch
    /\ UNCHANGED <<fontAvailable, hdata, cvars>>

\* lines 95-101: build_email
HandlerBuild ==
    /\ hpc = "build"
    /\ \E ok \in BOOLEAN :
          IF ok THEN emailBuilt' = TRUE /\ Goto("send")
                ELSE emailBuilt' = FALSE /\ Catch
    /\ UNCHANGED <<fontAvailable, hnames, himg, templateFetched, bubbleFetched,
                   sendCalls, emailSent, cvars>>

\* lines 104-111: ses.send_raw_email, once
HandlerSend_Retry ==
    /\ hpc = "send"
    /\ sendCalls' = sendCalls + 1
    /\ \E ok \in BOOLEAN :
          IF ok THEN emailSent' = TRUE /\ Return(200, "Email sent successfully!")
          ELSE IF sendCalls = 0 THEN emailSent' = FALSE /\ Goto("send")
          ELSE emailSent' = FALSE /\ Catch
    /\ UNCHANGED <<fontAvailable, hnames, himg, templateFetched, bubbleFetched,
                   emailBuilt, cvars>>
HandlerSend ==
    /\ hpc = "send"
    /\ sendCalls' = sendCalls + 1
    /\ \E ok \in BOOLEAN :
          IF ok THEN emailSent' = TRUE /\ Return(200, "Email sent successfully!")
                ELSE emailSent' = FALSE /\ Catch
    /\ UNCHANGED <<fontAvailable, hnames, himg, templateFetched, bubbleFetched,
                   emailBuilt, cvars>>

\* ------------------------------------------------------- specification
Next ==
    \/ DirectCall
    \/ OpenBubble
    \/ LoadInitialFont
    \/ LoopIter
    \/ Paste
    \/ Draw
    \/ HandlerStart
    \/ HandlerConfig
    \/ HandlerMessages
    \/ HandlerExcel
    \/ HandlerNames
    \/ HandlerTemplate
    \/ HandlerBubble
    \/ HandlerComposed
    \/ HandlerComposeRaised
    \/ HandlerSave
    \/ HandlerBuild
    \/ HandlerSend

Spec == Init /\ [][Next]_vars

\* The code is sequential and synchronous: a started step runs to its end.
FairSpec == Spec /\ WF_vars(Next)

\* ------------------------------------------------------------- claims
AfterLoop == pc \in {"paste", "draw", "returned"}
StepsBeforeSend ==
    {"idle", "config", "messages", "excel", "names", "template", "bubble",
     "compose", "save", "build"}

\* C1 (as stated): when the search finishes without an exception, the measured
\* text height is strictly below 0.8 times the pasted overlay's height, or the
\* font size is the floor 15.
C1_BelowThresholdOrFloor ==
    AfterLoop => (10 * text_h < 8 * new_height \/ font_size = 15)

\* C1 (amended): when the search finishes without an exception, either the
\* overlay grown to the text fits the canvas, so that the text height plus the
\* 60px padding is at most the overlay height and the canvas height, or the
\* font size is the floor 15.  The code has no 0.8 threshold.
C1_FitsCanvasOrFloor ==
    AfterLoop =>
        \/ /\ new_width <= img.w /\ new_height <= img.h
           /\ text_h + 60 <= new_height
           /\ text_w + 60 <= new_width
        \/ font_size = 15

\* C1 witness: a search that shrank the font, left by the fit test, with the
\* text above 0.8 of the overlay height.
C1_Witness ==
    /\ pc = "returned" /\ exitKind = "fit" /\ Len(sizes) > 1
    /\ 10 * text_h >= 8 * new_height

\* C2: the search loop always ends, measures the block at most
\* (50 - 15) div 2 + 1 = 18 times, and between two consecutive measurements
\* the font size decreases by exactly the step 2.
C2_SearchTerminates ==
    /\ [](/\ Len(sizes) <= (50 - 15) \div 2 + 1
          /\ \A i \in 1..(Len(sizes) - 1) : sizes[i + 1] = sizes[i] - 2)
    /\ ((pc = "loop") ~> (pc \in {"paste", "raised"}))

\* C2 witness: a returned call whose loop measured 18 times, from 50 to 16.
C2_Witness ==
    /\ pc = "returned" /\ Len(sizes) = 18
    /\ sizes[1] = 50 /\ sizes[18] = 16

\* C3 (as stated): once the fallback font has been taken, the font file is
\* not loaded again and no exception leaves add_bubble_with_names.
C3_FallbackCompletes ==
    fallback => (lateLoads = 0 /\ pc # "raised")

\* C4 (as stated): with an empty name list neither add_bubble_with_names nor
\* lambda_handler completes as a success, and the canvas stays unmodified.
C4_EmptyRejected ==
    /\ (caller # "none" /\ names = <<>>) => (pc # "returned" /\ canvas = Blank)
    /\ (hpc = "returned" /\ "excel" \in done /\ hnames = <<>>) => statusCode # 200

\* C4 (amended): with no names for the month lambda_handler returns
\* statusCode 200 "No birthdays this month" without fetching a template,
\* calling add_bubble_with_names or sending, so no canvas is touched;
\* add_bubble_with_names itself does not reject an empty list: with a
\* decodable overlay and a loadable font it never raises.
C4_EmptyReturns200 ==
    /\ ("excel" \in done /\ hnames = <<>>) =>
          /\ hpc \in {"names", "returned"}
          /\ hpc = "returned" =>
                (statusCode = 200 /\ body = "No birthdays this month" /\ ~failed)
          /\ ~templateFetched /\ caller = "none" /\ canvas = Blank
          /\ sendCalls = 0
    /\ (caller # "none" /\ names = <<>> /\ bubble.ok /\ fontAvailable) =>
          pc # "raised"

\* C4 witness: the handler returned 200 on an empty name list, or a direct
\* call with an empty list returned with the overlay pasted.
C4_Witness ==
    \/ hpc = "returned" /\ "excel" \in done /\ hnames = <<>> /\ statusCode = 200
    \/ caller = "direct" /\ names = <<>> /\ pc = "returned" /\ canvas.pasted

\* C5 (as stated): on every return the pasted overlay lies inside the canvas.
C5_OverlayInsideCanvas ==
    pc = "returned" =>
        /\ new_width <= img.w /\ new_height <= img.h
        /\ bubble_x >= 0 /\ bubble_y >= 0

\* C5 (amended): the pasted overlay lies inside the canvas on every return
\* whose search was left by the fit test; when the search stopped at the font
\* floor the overlay is larger than the canvas in width or in height.
C5_InsideCanvasOnFit ==
    pc = "returned" =>
        /\ exitKind = "fit" =>
              /\ new_width <= img.w /\ new_height <= img.h
              /\ bubble_x >= 0 /\ bubble_y >= 0
              /\ bubble_x + new_width <= img.w /\ bubble_y + new_height <= img.h
        /\ exitKind = "floor" => (new_width > img.w \/ new_height > img.h)

\* C5 witness: a return after the overlay was grown beyond its size-ratio
\* width and still fits the canvas.
C5_Witness ==
    /\ pc = "returned" /\ exitKind = "fit"
    /\ new_width > (img.w * size_ratio.num) \div size_ratio.den
    /\ Len(sizes) > 1

\* C6 (as stated): the pasted overlay is canvas_width * size_ratio wide and
\* its height is within 1px of that width times the overlay's aspect ratio.
C6_AspectPreserved ==
    pc = "returned" =>
        /\ new_width = (img.w * size_ratio.num) \div size_ratio.den
        /\ Abs(new_height * bubble.w - new_width * bubble.h) < bubble.w

\* C6 (amended): new_width is the larger of int(canvas_width * size_ratio) and
\* text_w + 60, new_height the larger of int(new_width * (h / w)) and
\* text_h + 60.  The pasted height is never more than 1px below
\* new_width * h / w, and when it exceeds text_h + 60 it is not above it, so
\* it is then within 1px (the float truncation can cost a whole pixel).
C6_AspectUnlessGrown ==
    AfterLoop =>
        LET scaled_w == (img.w * size_ratio.num) \div size_ratio.den
        IN /\ new_width = IF scaled_w >= text_w + 60 THEN scaled_w ELSE text_w + 60
           /\ new_height >= text_h + 60
           /\ new_height * bubble.w >= new_width * bubble.h - bubble.w
           /\ new_height > text_h + 60 =>
                 /\ new_height * bubble.w <= new_width * bubble.h
                 /\ Abs(new_height * bubble.w - new_width * bubble.h) <= bubble.w

\* C6 witness: a return where the overlay was widened for the text and its
\* height is more than 1px off the aspect-preserving height.
C6_Witness ==
    /\ pc = "returned"
    /\ new_width > (img.w * size_ratio.num) \div size_ratio.den
    /\ Abs(new_height * bubble.w - new_width * bubble.h) >= bubble.w

\* C7: an undecodable overlay makes add_bubble_with_names raise before any
\* paste or draw, and lambda_handler then returns 500 without building or
\* sending an e-mail.
C7_DecodeErrorNoCompositing ==
    (caller # "none" /\ ~bubble.ok /\ pc # "open") =>
        /\ pc = "raised" /\ canvas = Blank /\ sizes = <<>>
        /\ caller = "handler" =>
              /\ hpc \in {"compose", "returned"}
              /\ ~emailBuilt /\ sendCalls = 0 /\ ~emailSent
              /\ hpc = "returned" => statusCode = 500

\* C7 witness: the handler returned 500 after the overlay failed to decode.
C7_Witness ==
    /\ caller = "handler" /\ ~bubble.ok /\ pc = "raised"
    /\ hpc = "returned" /\ statusCode = 500

\* C8 (as stated): on every exit of the search the font measured and drawn is
\* the font of the final font_size.
C8_FontMatchesSize ==
    AfterLoop => font.size = font_size

\* C9: on every return the drawn block lies inside the pasted overlay.
C9_TextInsideOverlay ==
    pc = "returned" =>
        /\ bubble_x <= text_x /\ text_x + text_w <= bubble_x + new_width
        /\ bubble_y <= text_y /\ text_y + text_h <= bubble_y + new_height

\* C9 witness: a return at the font floor with the overlay past the canvas.
C9_Witness ==
    /\ pc = "returned" /\ exitKind = "floor" /\ text_h > 0
    /\ (bubble_x < 0 \/ bubble_y < 0)

\* C10: send_raw_email is invoked at most once and only after every earlier
\* step succeeded with a non-empty name list; a failing step gives 500 with no
\* e-mail sent, an empty name list gives 200 with no template fetched, and
\* every exception ends in a returned result.
C10_SendOnceAfterSuccess ==
    /\ sendCalls <= 1
    /\ sendCalls = 1 =>
          /\ StepsBeforeSend \subseteq done
          /\ hnames # <<>> /\ templateFetched /\ bubbleFetched /\ emailBuilt
          /\ caller = "handler" /\ pc = "returned" /\ canvas.drawn
    /\ emailSent => sendCalls = 1
    /\ failed => (hpc = "returned" /\ statusCode = 500 /\ ~emailSent)
    /\ hpc = "returned" => statusCode \in {200, 500}
    /\ (hpc = "returned" /\ statusCode = 200) =>
          \/ hnames = <<>> /\ ~templateFetched /\ sendCalls = 0
          \/ hnames # <<>> /\ emailSent
    /\ (caller = "handler" /\ pc = "raised") => hpc \in {"compose", "returned"}

\* C10 witness: the handler sent the e-mail and returned 200.
C10_Witness ==
    hpc = "returned" /\ statusCode = 200 /\ emailSent /\ sendCalls = 1

====
